---- MODULE Spec2Model ----
(***************************************************************************)
(* Verification model of the IoT-Ecosystem cloud backend and simulators.   *)
(*                                                                         *)
(* The repository holds two fan-out pipelines that are not wired to each   *)
(* other, and the read endpoints:                                          *)
(*   - app/main.py: handle_mqtt_message and ConnectionManager, whose       *)
(*     broadcast() walks the list active_connections and awaits one send   *)
(*     after the other on the event loop (specifications Spec, FairSpec);  *)
(*   - app/services/mqtt_client.py: MQTTService, whose paho thread decodes *)
(*     a message, stores it, caches it and schedules one coroutine per     *)
(*     registered callback on the event loop (specifications SpecMQ,       *)
(*     SpecIngest, SpecIdent and SpecDecode, one per slice of its inputs); *)
(*   - app/api/v1/sensors.py: the read endpoints over the readings table   *)
(*     and over the cache of MQTTService (specification SpecRead);         *)
(*   - app/main.py: websocket_endpoint, from accept over the welcome and   *)
(*     the client's messages to its end (specification SpecWs);            *)
(*   - edge/sensors/*_sensor.py: a simulator, which classifies each value  *)
(*     against its thresholds and its last value (specification            *)
(*     SpecSensor).                                                        *)
(***************************************************************************)
EXTENDS Integers, Sequences, FiniteSets, TLC

\* ------------------------------------------------------------------ bounds
\* Websockets that may connect to /ws during a run.
Conns == {"A", "B", "C"}
\* Sensor messages handled during a run.
MaxMsgs == 2
\* Hours the clock advances during a run.
MaxTime == 2
\* The configured capacity of the history (10,000 by default), scaled to the
\* number of messages of a run.
Capacity == 1

\* Callbacks that may be registered with MQTTService during a run.
Callbacks == {"cbA", "cbB"}

NoConn == "none"
Absent == <<>>
NoReading ==
    [sensor_type |-> "", sensor_id |-> "", value |-> 0, unit |-> "", anomaly |-> FALSE,
     timestamp |-> 0]

\* A topic is held as the list of its '/'-separated segments.
Topics == {<<"sensors", "temperature", "t1">>, <<"sensors", "temperature", "t2">>}

\* A payload is held as what json.loads makes of it: whether it parses, and the
\* keys the handler reads (Absent: the key is not in the object).
\* A key holds <<v>> when the object has it with value v.
Payloads ==
    {[json |-> TRUE, value |-> <<22>>, type |-> Absent, sensor_type |-> Absent,
      sensor_id |-> Absent, unit |-> Absent, anomaly |-> Absent, ts |-> Absent],
     [json |-> TRUE, value |-> <<22>>, type |-> Absent, sensor_type |-> Absent,
      sensor_id |-> Absent, unit |-> <<"celsius">>, anomaly |-> <<TRUE>>, ts |-> Absent],
     [json |-> TRUE, value |-> Absent, type |-> Absent, sensor_type |-> Absent,
      sensor_id |-> Absent, unit |-> Absent, anomaly |-> Absent, ts |-> Absent]}

\* The value of the payload's key 'ts' (or 'timestamp') is held as a record: an
\* ISO-8601 text of the time t, with or without a trailing 'Z'; a text that is
\* no date; or a JSON number t.
IsoText(t, z) == [kind |-> "iso", z |-> z, t |-> t]
BadText == [kind |-> "text", z |-> FALSE, t |-> 0]
Number(t) == [kind |-> "number", z |-> FALSE, t |-> t]

\* A JSON object with the given keys (Absent: the object has no such key).
Object(value, type, sensor_type, sensor_id, anomaly, ts) ==
    [json |-> TRUE, value |-> value, type |-> type, sensor_type |-> sensor_type,
     sensor_id |-> sensor_id, unit |-> Absent, anomaly |-> anomaly, ts |-> ts]

\* Topics and payloads that tell who names the sensor: the topic of the
\* temperature simulator, a sensor type no part of the repository has a policy
\* for, and two topics whose segments join to the same text.
IdentTopics ==
    {<<"sensors", "temperature", "sim001">>, <<"sensors", "pressure", "p1">>,
     <<"sensors", "a_b", "c">>, <<"sensors", "a", "b_c">>}

IdentPayloads ==
    {Object(<<22>>, Absent, Absent, Absent, Absent, Absent),
     Object(<<22>>, Absent, Absent, Absent, <<TRUE>>, Absent),
     Object(<<22>>, <<"humidity">>, Absent, Absent, Absent, Absent),
     Object(<<22>>, Absent, <<"humidity">>, Absent, Absent, Absent),
     Object(<<22>>, Absent, Absent, <<"temp_sim_001">>, Absent, Absent)}

\* Topics and payloads that tell what is decoded: a topic of two segments, and
\* payloads that are no JSON, that lack 'value', and that carry each kind of
\* 'ts'.  The ISO texts name the time 1.
DecodeTopics == {<<"sensors", "temperature", "t1">>, <<"sensors", "temperature">>}

\* The text {"value": 22 with the closing brace missing: json.loads raises.
Truncated == [Object(<<22>>, Absent, Absent, Absent, Absent, Absent) EXCEPT !.json = FALSE]

DecodePayloads ==
    {Object(<<22>>, Absent, Absent, Absent, Absent, Absent),
     Truncated,
     Object(Absent, Absent, Absent, Absent, Absent, Absent),
     Object(<<22>>, Absent, Absent, Absent, Absent, <<IsoText(1, TRUE)>>),
     Object(<<22>>, Absent, Absent, Absent, Absent, <<IsoText(1, FALSE)>>),
     Object(<<22>>, Absent, Absent, Absent, Absent, <<BadText>>),
     Object(<<22>>, Absent, Absent, Absent, Absent, <<Number(5)>>),
     Object(<<22>>, Absent, Absent, Absent, Absent, <<Number(0)>>)}

VARIABLES
    \* ---- app/main.py ----
    ws,                  \* websocket_endpoint per websocket: "new", "open", "closed"
    active_connections,  \* ConnectionManager.active_connections (a list)
    total_readings,      \* app_state["system_stats"]["total_readings"]
    cmMsgs,              \* number of handle_mqtt_message calls so far
    bpc,                 \* broadcast coroutine: "idle" or "sending" (suspended in send_text)
    bmsg,                \* message of the running/last broadcast
    bidx,                \* position of the list iterator of `for connection in ...`
    bcur,                \* connection whose send_text is awaited
    bstuck,              \* the awaited send_text hangs for as long as the client stays connected
    disconnected,        \* broadcast's local list `disconnected`
    received,            \* per websocket, the messages whose send_text succeeded
    \* history of the running/last broadcast (not program state)
    bstart,              \* active_connections when broadcast was called
    battempt,            \* per websocket, number of send_text calls of this broadcast
    bfailed,             \* websockets whose send_text raised in this broadcast
    bintf,               \* connect/disconnect by another coroutine ran during this broadcast
    \* ---- app/services/mqtt_client.py ----
    websocket_callbacks, \* MQTTService.websocket_callbacks (a set)
    loop,                \* MQTTService.loop: "unset" or "running"
    latest_readings,     \* MQTTService.latest_readings (a dict: key -> reading)
    db,                  \* rows of the readings table, in commit order
    mpc,                 \* paho thread in _handle_sensor_data: "idle", "stored", "cached", "notify"
    mseq,                \* number of messages _on_message was called with
    mreading,            \* local reading_data of the message being handled
    mkey,                \* local cache key of the message being handled
    itSize,              \* set iterator: size of the set when the iterator was made
    itSeen,              \* set iterator: elements already yielded
    itStart,             \* set iterator: elements of the set when the iterator was made
    tasks,               \* coroutines scheduled on the event loop and not finished
    delivered,           \* per callback, the events its coroutine delivered
    \* history (not program state)
    accepted,            \* per accepted message: input, reading, previous cache value
    msteps,              \* what _handle_sensor_data has done for the current message
    nTried,              \* callbacks run_coroutine_threadsafe was called for
    nAborted,            \* the last notification was ended by an exception
    \* ---- clock, database engine and callers of the read operations ----
    now,                 \* what datetime.utcnow() returns
    tie,                 \* order in which the engine returns rows of equal timestamp
    lastRead,            \* the last read operation: its query, its result, when it ran
    \* ---- edge/sensors/*_sensor.py: one simulator process ----
    sensor,              \* which simulator this is: the "type" of its payloads
    last_value,          \* self.last_value: None or the value of the last publish_reading
    published,           \* history: the payload of each publish_reading call
    rc,                  \* result.rc of the last client.publish
    call,                \* history: the last direct call of detect_anomaly or create_payload
    \* ---- app/main.py: websocket_endpoint, the client's side ----
    greeted,             \* websockets whose endpoint has tried to send the welcome message
    replies,             \* per websocket, the events the endpoint sent it (send_text succeeded)
    wsMsgs,              \* number of client messages received so far
    lastMsg,             \* history: the last client message and the sends it caused
    \* ---- app/services/mqtt_client.py: the connection to the broker ----
    connected,           \* MQTTService.connected
    subscribed,          \* the (topic, qos) subscriptions the broker holds for the client
    link,                \* the connection to the broker: "down" or "up"
    lastCallback,        \* history: the last of _on_connect / _on_disconnect and its rc
    nCallbacks,          \* history: number of _on_connect / _on_disconnect calls
    sessions,            \* history: number of successful connects
    connectedAt          \* history: mseq at the last successful connect

cmVars == <<ws, active_connections, total_readings, cmMsgs, bpc, bmsg, bidx, bcur,
            bstuck, disconnected, received, bstart, battempt, bfailed, bintf>>

mqVars == <<websocket_callbacks, loop, latest_readings, db, mpc, mseq, mreading, mkey,
            itSize, itSeen, itStart, tasks, delivered, accepted, msteps, nTried,
            nAborted>>

rdVars == <<now, tie, lastRead>>

edVars == <<sensor, last_value, published, rc, call>>

epVars == <<greeted, replies, wsMsgs, lastMsg>>

brVars == <<connected, subscribed, link, lastCallback, nCallbacks, sessions, connectedAt>>

vars == <<cmVars, mqVars, rdVars, edVars, epVars, brVars>>

\* ---------------------------------------------------------------- helpers
Range(s) == {s[i] : i \in 1..Len(s)}

RECURSIVE Count(_, _)
Count(s, x) ==
    IF s = <<>> THEN 0
    ELSE (IF Head(s) = x THEN 1 ELSE 0) + Count(Tail(s), x)

\* list.remove(x): drops the first occurrence of x.
RECURSIVE ListRemove(_, _)
ListRemove(s, x) ==
    IF s = <<>> THEN <<>>
    ELSE IF Head(s) = x THEN Tail(s)
    ELSE <<Head(s)>> \o ListRemove(Tail(s), x)

\* ------------------------------------------------- ConnectionManager (main.py)
DisconnectKeepsAll(list, c) == list

\* list.pop(): drops the last websocket, whichever was asked for.
DisconnectPop(list, c) == SubSeq(list, 1, Len(list) - 1)

\* ConnectionManager.disconnect: remove the websocket if it is in the list.
Disconnect(list, c) ==
    IF c \in Range(list) THEN ListRemove(list, c) ELSE list

\* broadcast's second loop: `for connection in disconnected: self.disconnect(connection)`.
RECURSIVE DisconnectAll(_, _)
DisconnectAll(list, disc) ==
    IF disc = <<>> THEN list
    ELSE DisconnectAll(Disconnect(list, Head(disc)), Tail(disc))

\* One turn of `for connection in self.active_connections` from iterator position
\* idx, up to the next suspension: either the iterator yields list[idx+1] and
\* send_text is awaited on it, or it is exhausted, the connections collected in
\* `disc` are disconnected and broadcast returns.
BroadcastStep(idx, disc, att) ==
    IF idx < Len(active_connections)
    THEN /\ bpc' = "sending"
         /\ bidx' = idx + 1
         /\ bcur' = active_connections[idx + 1]
         /\ bstuck' \in BOOLEAN
         /\ disconnected' = disc
         /\ battempt' = [att EXCEPT ![active_connections[idx + 1]] = @ + 1]
         /\ UNCHANGED active_connections
    ELSE /\ bpc' = "idle"
         /\ bidx' = 0
         /\ bcur' = NoConn
         /\ bstuck' = FALSE
         /\ disconnected' = <<>>
         /\ battempt' = att
         /\ active_connections' = DisconnectAll(active_connections, disc)

\* handle_mqtt_message: store the reading, count it, build the event and call
\* manager.broadcast; an exception of the store is caught and ends the handler.
HandleMqttMessage(storeOk) ==
    /\ UNCHANGED <<mqVars, rdVars, edVars, epVars, brVars>>
    /\ bpc = "idle"
    /\ cmMsgs < MaxMsgs
    /\ cmMsgs' = cmMsgs + 1
    /\ IF storeOk
       THEN /\ total_readings' = total_readings + 1
            /\ bmsg' = cmMsgs + 1
            /\ bstart' = active_connections
            /\ bfailed' = {}
            /\ bintf' = FALSE
            /\ BroadcastStep(0, <<>>, [c \in Conns |-> 0])
            /\ UNCHANGED <<ws, received>>
       ELSE UNCHANGED <<ws, active_connections, total_readings, bpc, bmsg, bidx, bcur,
                        bstuck, disconnected, received, bstart, battempt, bfailed, bintf>>

\* The awaited send_text of broadcast completes (ok) or raises; the loop goes on.
\* A send on a websocket whose client is gone raises; a send that hangs on a
\* client that stays connected does not return.
SendReturn(ok) ==
    /\ UNCHANGED <<mqVars, rdVars, edVars, epVars, brVars>>
    /\ bpc = "sending"
    /\ bstuck => ws[bcur] = "closed"
    /\ ws[bcur] = "closed" => ~ok
    /\ received' = IF ok THEN [received EXCEPT ![bcur] = Append(@, bmsg)] ELSE received
    /\ bfailed' = IF ok THEN bfailed ELSE bfailed \cup {bcur}
    /\ BroadcastStep(bidx, IF ok THEN disconnected ELSE Append(disconnected, bcur), battempt)
    /\ UNCHANGED <<ws, total_readings, cmMsgs, bmsg, bstart, bintf>>

\* A connect that appends before it accepts: the websocket is in the list
\* whether accept returns or raises.
ConnectAppendsFirst(c) ==
    /\ UNCHANGED <<mqVars, rdVars, edVars, epVars, brVars>>
    /\ ws[c] = "new"
    /\ \E accepted_ok \in BOOLEAN :
          ws' = [ws EXCEPT ![c] = IF accepted_ok THEN "open" ELSE "closed"]
    /\ active_connections' = Append(active_connections, c)
    /\ bintf' = (bintf \/ bpc = "sending")
    /\ UNCHANGED <<total_readings, cmMsgs, bpc, bmsg, bidx, bcur, bstuck, disconnected,
                   received, bstart, battempt, bfailed>>

\* ConnectionManager.connect called by websocket_endpoint: accept, then append.
Connect(c) ==
    /\ UNCHANGED <<mqVars, rdVars, edVars, epVars, brVars>>
    /\ ws[c] = "new"
    /\ ws' = [ws EXCEPT ![c] = "open"]
    /\ active_connections' = Append(active_connections, c)
    /\ bintf' = (bintf \/ bpc = "sending")
    /\ UNCHANGED <<total_readings, cmMsgs, bpc, bmsg, bidx, bcur, bstuck, disconnected,
                   received, bstart, battempt, bfailed>>

\* websocket.accept() raises: the websocket is never appended.
AcceptFails(c) ==
    /\ UNCHANGED <<mqVars, rdVars, edVars, epVars, brVars>>
    /\ ws[c] = "new"
    /\ ws' = [ws EXCEPT ![c] = "closed"]
    /\ UNCHANGED <<active_connections, total_readings, cmMsgs, bpc, bmsg, bidx, bcur,
                   bstuck, disconnected, received, bstart, battempt, bfailed, bintf>>

\* websocket_endpoint: receive_text raises WebSocketDisconnect, manager.disconnect.
EndpointDisconnect(c) ==
    /\ UNCHANGED <<mqVars, rdVars, edVars, epVars, brVars>>
    /\ ws[c] = "open"
    /\ ws' = [ws EXCEPT ![c] = "closed"]
    /\ active_connections' = Disconnect(active_connections, c)
    /\ bintf' = (bintf \/ (bpc = "sending" /\ c \in Range(active_connections)))
    /\ UNCHANGED <<total_readings, cmMsgs, bpc, bmsg, bidx, bcur, bstuck, disconnected,
                   received, bstart, battempt, bfailed>>

\* ------------------------------------------- websocket_endpoint (main.py)
\* What a client sends: {"type": "ping"}, an object of another type such as
\* {"type": "subscribe"}, text that is not JSON, and JSON that is not an object
\* such as [1].  The branch of {"type": "get_latest"} calls
\* sensors.get_latest_readings, which app/api/v1/sensors.py does not define: the
\* call returns the readings or raises.
ClientMessages == {"ping", "get_latest", "other_type", "invalid_json", "not_an_object"}

MaxWsMsgs == 2

NoMsg == [conn |-> NoConn, kind |-> "none", sends |-> <<>>, raised |-> "none"]

\* A send_message that sends the event to every registered websocket.
SendMessageToAll(c, type, ok) ==
    /\ replies' = [d \in Conns |->
                      IF d \in Range(active_connections) \cup {c}
                      THEN Append(replies[d], type) ELSE replies[d]]
    /\ UNCHANGED <<active_connections, bintf>>

\* ConnectionManager.send_message(message, websocket): send_text, and
\* disconnect the websocket if it raises.
SendMessage(c, type, ok) ==
    IF ok
    THEN /\ replies' = [replies EXCEPT ![c] = Append(@, type)]
         /\ UNCHANGED <<active_connections, bintf>>
    ELSE /\ active_connections' = Disconnect(active_connections, c)
         /\ bintf' = (bintf \/ (bpc = "sending" /\ c \in Range(active_connections)))
         /\ UNCHANGED replies

\* websocket_endpoint after connect: the welcome message.
Welcome(c, ok) ==
    /\ ws[c] = "open"
    /\ c \notin greeted
    /\ greeted' = greeted \cup {c}
    /\ SendMessage(c, "connection_established", ok)
    /\ UNCHANGED <<ws, wsMsgs, lastMsg>>
    /\ UNCHANGED <<total_readings, cmMsgs, bpc, bmsg, bidx, bcur, bstuck, disconnected,
                   received, bstart, battempt, bfailed>>
    /\ UNCHANGED <<mqVars, rdVars, edVars, brVars>>

\* One turn of the endpoint's `while True`: receive_text returns a message of
\* the client, json.loads, the branch of its type, and the send of the answer
\* (ok: send_text returns; otherwise it raises).  message.get of JSON that is
\* not an object raises AttributeError, and sensors.get_latest_readings may
\* raise: neither `except` of the endpoint catches these, and the endpoint ends
\* without manager.disconnect.
ClientMessage(c, kind, ok) ==
    /\ ws[c] = "open"
    /\ c \in greeted
    /\ wsMsgs < MaxWsMsgs
    /\ wsMsgs' = wsMsgs + 1
    /\ CASE kind = "ping" ->
               /\ SendMessage(c, "pong", ok)
               /\ lastMsg' = [NoMsg EXCEPT !.conn = c, !.kind = kind,
                                 !.sends = <<[to |-> c, type |-> "pong", ok |-> ok]>>]
               /\ UNCHANGED ws
         [] kind = "get_latest" ->
               \/ /\ SendMessage(c, "latest_data", ok)
                  /\ lastMsg' = [NoMsg EXCEPT !.conn = c, !.kind = kind,
                                    !.sends = <<[to |-> c, type |-> "latest_data",
                                                 ok |-> ok]>>]
                  /\ UNCHANGED ws
               \/ /\ ok
                  /\ lastMsg' = [NoMsg EXCEPT !.conn = c, !.kind = kind,
                                              !.raised = "Exception"]
                  /\ ws' = [ws EXCEPT ![c] = "closed"]
                  /\ UNCHANGED <<replies, active_connections, bintf>>
         [] kind = "invalid_json" ->
               /\ SendMessage(c, "error", ok)
               /\ lastMsg' = [NoMsg EXCEPT !.conn = c, !.kind = kind,
                                 !.sends = <<[to |-> c, type |-> "error", ok |-> ok]>>]
               /\ UNCHANGED ws
         [] kind = "other_type" ->
               /\ ok
               /\ lastMsg' = [NoMsg EXCEPT !.conn = c, !.kind = kind]
               /\ UNCHANGED <<ws, replies, active_connections, bintf>>
         [] kind = "not_an_object" ->
               /\ ok
               /\ lastMsg' = [NoMsg EXCEPT !.conn = c, !.kind = kind,
                                           !.raised = "AttributeError"]
               /\ ws' = [ws EXCEPT ![c] = "closed"]
               /\ UNCHANGED <<replies, active_connections, bintf>>
    /\ UNCHANGED greeted
    /\ UNCHANGED <<total_readings, cmMsgs, bpc, bmsg, bidx, bcur, bstuck, disconnected,
                   received, bstart, battempt, bfailed>>
    /\ UNCHANGED <<mqVars, rdVars, edVars, brVars>>

\* ------------------------------------------------ read operations: results
TieOrders == {"inserted", "reversed"}

NoQuery == [op |-> "none", sensor_id |-> "", hours |-> 0, limit |-> 0]

\* What a read operation returns: the HTTP status, the rows of a query, the
\* mapping of get_latest_readings (and whether it is the service's own dict or
\* a copy), the counts, and the time the response is stamped with.
NoResult ==
    [status |-> 0, rows |-> <<>>, live |-> [k \in {} |-> NoReading], shared |-> FALSE,
     count |-> 0, anomalies |-> 0, stamp |-> 0]

NoRead == [q |-> NoQuery, res |-> NoResult, at |-> 0, writes |-> <<0, 0>>]

\* ------------------------------------------------ MQTTService (mqtt_client.py)
\* dict.get(key, default)
Get(field, default) == IF field = Absent THEN default ELSE field[1]

\* float(x) succeeds on a number (and raises on anything else).
FloatOk(v) == v \in Int

Float(v) == v

\* `if timestamp_str:` - None, 0 and the empty text are false.
Truthy(x) == x # Absent /\ (x[1].kind = "number" => x[1].t # 0)

\* timestamp_str.endswith('Z') raises AttributeError on a value that is no text.
EndsWithRaises(x) == x.kind = "number"

\* timestamp_str[:-1]
StripLast(x) == [x EXCEPT !.z = FALSE]

\* datetime.fromisoformat raises ValueError on a text that is no ISO-8601 date
\* (a date with the trailing 'Z' left on it included).
FromIsoFormatRaises(x) == x.kind # "iso" \/ x.z

FromIsoFormat(x) == x.t

\* Lines 97-107: the timestamp of the reading.  Only ValueError is caught here.
TimestampRaises(ts) == Truthy(ts) /\ EndsWithRaises(ts[1])

ParseTimestamp(ts) ==
    IF ~Truthy(ts) THEN now
    ELSE LET text == IF ts[1].z THEN StripLast(ts[1]) ELSE ts[1]
         IN  IF FromIsoFormatRaises(text) THEN now ELSE FromIsoFormat(text)

AcceptsUnparsed(topic, data) ==
    /\ Len(topic) >= 3
    /\ data.value # Absent
    /\ ~TimestampRaises(data.ts)
    /\ FloatOk(data.value[1])

\* _handle_sensor_data up to the reading: the topic has three segments, the
\* payload parses, holds 'value', the timestamp code raises nothing but
\* ValueError, and float(value) does not raise.
Accepts(topic, data) ==
    /\ Len(topic) >= 3
    /\ data.json
    /\ data.value # Absent
    /\ ~TimestampRaises(data.ts)
    /\ FloatOk(data.value[1])

\* reading_data of _handle_sensor_data.
BuildReading(topic, data) ==
    [sensor_type |-> Get(data.type, topic[2]),
     sensor_id   |-> Get(data.sensor_id, topic[3]),
     value       |-> Float(data.value[1]),
     unit        |-> Get(data.unit, ""),
     anomaly     |-> Get(data.anomaly, FALSE),
     timestamp   |-> ParseTimestamp(data.ts)]

\* datetime.isoformat() of a naive datetime: the ISO text without a 'Z'.
IsoFormat(t) == IsoText(t, FALSE)

\* ws_data: a copy of the reading whose timestamp is the ISO text.
WsData(reading) == [reading EXCEPT !.timestamp = IsoFormat(@)]

\* The event handed to _notify_websocket_clients (its own timestamp, the time
\* of the call, is left out).
Event(reading) == [type |-> "sensor_data", data |-> WsData(reading)]

\* f"{sensor_type}_{sensor_id}" of the topic's segments.
CacheKey(topic) == topic[2] \o "_" \o topic[3]

CachePutAlone(cache, key, reading) == [k \in {key} |-> reading]

CachePutIfSubscribed(cache, key, reading) ==
    IF websocket_callbacks = {} \/ loop # "running" THEN cache
    ELSE [k \in DOMAIN cache \cup {key} |-> IF k = key THEN reading ELSE cache[k]]

\* self.latest_readings[key] = reading_data
CachePut(cache, key, reading) ==
    [k \in DOMAIN cache \cup {key} |-> IF k = key THEN reading ELSE cache[k]]

\* A return that first waits for the deliveries of the message (fut.result()).
ReturnWhenDelivered ==
    /\ \A t \in tasks : t.m # mseq
    /\ mpc' = "idle"
    /\ mreading' = NoReading
    /\ mkey' = ""
    /\ msteps' = <<>>

\* _handle_sensor_data returns to _on_message and its locals are gone.
Return ==
    /\ mpc' = "idle"
    /\ mreading' = NoReading
    /\ mkey' = ""
    /\ msteps' = <<>>

\* _on_message where a failure of the database leaves _handle_sensor_data: the
\* message is logged and neither cached nor announced.
OnMessageStoreRaises(topic, data, dbOk) ==
    /\ mpc = "idle"
    /\ mseq < MaxMsgs
    /\ Len(topic) >= 2 /\ topic[1] = "sensors"
    /\ mseq' = mseq + 1
    /\ IF Accepts(topic, data)
       THEN /\ db' = IF dbOk THEN Append(db, BuildReading(topic, data)) ELSE db
            /\ accepted' = Append(accepted,
                  [m |-> mseq + 1, topic |-> topic, data |-> data, dbOk |-> dbOk,
                   reading |-> BuildReading(topic, data),
                   prev |-> IF CacheKey(topic) \in DOMAIN latest_readings
                            THEN <<latest_readings[CacheKey(topic)].value>> ELSE Absent])
            /\ IF dbOk
               THEN /\ mreading' = BuildReading(topic, data)
                    /\ mkey' = CacheKey(topic)
                    /\ msteps' = <<"history">>
                    /\ mpc' = "stored"
               ELSE UNCHANGED <<mreading, mkey, msteps, mpc>>
       ELSE /\ dbOk
            /\ UNCHANGED <<mreading, mkey, db, accepted, msteps, mpc>>
    /\ nTried' = {}
    /\ nAborted' = FALSE
    /\ UNCHANGED <<websocket_callbacks, loop, latest_readings, itSize, itSeen, itStart,
                   tasks, delivered>>
    /\ UNCHANGED <<cmVars, rdVars, edVars, epVars, brVars>>

\* _on_message with a sensors/ topic: _handle_sensor_data decodes the message and
\* drops it, or builds the reading and stores it (_store_sensor_reading keeps a
\* failure of the database to itself).
OnMessage(topic, data, dbOk) ==
    /\ mpc = "idle"
    /\ mseq < MaxMsgs
    /\ Len(topic) >= 2 /\ topic[1] = "sensors"
    /\ mseq' = mseq + 1
    /\ IF Accepts(topic, data)
       THEN /\ mreading' = BuildReading(topic, data)
            /\ mkey' = CacheKey(topic)
            /\ db' = IF dbOk THEN Append(db, BuildReading(topic, data)) ELSE db
            /\ accepted' = Append(accepted,
                  [m |-> mseq + 1, topic |-> topic, data |-> data, dbOk |-> dbOk,
                   reading |-> BuildReading(topic, data),
                   prev |-> IF CacheKey(topic) \in DOMAIN latest_readings
                            THEN <<latest_readings[CacheKey(topic)].value>> ELSE Absent])
            /\ msteps' = <<"history">>
            /\ mpc' = "stored"
       ELSE /\ dbOk
            /\ UNCHANGED <<mreading, mkey, db, accepted, msteps, mpc>>
    /\ nTried' = {}
    /\ nAborted' = FALSE
    /\ UNCHANGED <<websocket_callbacks, loop, latest_readings, itSize, itSeen, itStart,
                   tasks, delivered>>
    /\ UNCHANGED <<cmVars, rdVars, edVars, epVars, brVars>>

\* _handle_sensor_data: update the latest readings cache.
CacheWrite ==
    /\ mpc = "stored"
    /\ latest_readings' = CachePut(latest_readings, mkey, mreading)
    /\ msteps' = Append(msteps, "cache")
    /\ mpc' = "cached"
    /\ UNCHANGED <<websocket_callbacks, loop, db, mseq, mreading, mkey, itSize, itSeen,
                   itStart, tasks, delivered, accepted, nTried, nAborted>>
    /\ UNCHANGED <<cmVars, rdVars, edVars, epVars, brVars>>

\* _notify_websocket_clients that keeps the event for the callbacks to come: it
\* enters the loop over the set whatever the set and the loop are.
NotifyEnterKeeps ==
    /\ mpc = "cached"
    /\ nTried' = {}
    /\ nAborted' = FALSE
    /\ itSeen' = {}
    /\ mpc' = "notify"
    /\ msteps' = Append(msteps, "submit")
    /\ itSize' = Cardinality(websocket_callbacks)
    /\ itStart' = websocket_callbacks
    /\ UNCHANGED <<mreading, mkey>>
    /\ UNCHANGED <<websocket_callbacks, loop, latest_readings, db, mseq,
                   tasks, delivered, accepted>>
    /\ UNCHANGED <<cmVars, rdVars, edVars, epVars, brVars>>

\* _notify_websocket_clients is called with the event: it returns at once when no
\* callback is registered or no loop is running, and otherwise makes the iterator
\* of `for callback in self.websocket_callbacks`.
NotifyEnter ==
    /\ mpc = "cached"
    /\ nTried' = {}
    /\ nAborted' = FALSE
    /\ itSeen' = {}
    /\ IF websocket_callbacks = {} \/ loop # "running"
       THEN /\ Return
            /\ itSize' = 0
            /\ itStart' = {}
       ELSE /\ mpc' = "notify"
            /\ msteps' = Append(msteps, "submit")
            /\ itSize' = Cardinality(websocket_callbacks)
            /\ itStart' = websocket_callbacks
            /\ UNCHANGED <<mreading, mkey>>
    /\ UNCHANGED <<websocket_callbacks, loop, latest_readings, db, mseq,
                   tasks, delivered, accepted>>
    /\ UNCHANGED <<cmVars, rdVars, edVars, epVars, brVars>>

\* next() of a set iterator raises RuntimeError ("Set changed size during
\* iteration") when the set no longer has the size it had when the iterator was
\* made.
SetIterRaises(size) == Cardinality(websocket_callbacks) # size

\* One turn of the for loop on the paho thread.  The RuntimeError of the iterator
\* is raised outside the loop's try and ends the notification (it is caught by
\* _handle_sensor_data).  Otherwise the iterator yields an element it has not
\* yielded, and run_coroutine_threadsafe schedules callback(message) or raises
\* (caught inside the loop); or the iterator is exhausted.  An element added
\* after the iterator was made may lie before the iterator's position in the
\* table and is then not yielded.
NotifyNext(schedOk) ==
    /\ mpc = "notify"
    /\ IF SetIterRaises(itSize)
       THEN /\ schedOk
            /\ nAborted' = TRUE
            /\ Return
            /\ itSize' = 0
            /\ itSeen' = {}
            /\ itStart' = {}
            /\ UNCHANGED <<nTried, tasks>>
       ELSE \/ \E cb \in websocket_callbacks \ itSeen :
                /\ itSeen' = itSeen \cup {cb}
                /\ nTried' = nTried \cup {cb}
                /\ tasks' = IF schedOk
                            THEN tasks \cup {[m |-> mseq, cb |-> cb, event |-> Event(mreading)]}
                            ELSE tasks
                /\ UNCHANGED <<mpc, nAborted, mreading, mkey, msteps, itSize, itStart>>
            \/ /\ schedOk
               /\ (websocket_callbacks \ itSeen) \cap itStart = {}
               /\ Return
               /\ itSize' = 0
               /\ itSeen' = {}
               /\ itStart' = {}
               /\ UNCHANGED <<nTried, tasks, nAborted>>
    /\ UNCHANGED <<websocket_callbacks, loop, latest_readings, db, mseq,
                   delivered, accepted>>
    /\ UNCHANGED <<cmVars, rdVars, edVars, epVars, brVars>>

\* set_event_loop, called on the running loop at startup.
SetEventLoop ==
    /\ loop = "unset"
    /\ loop' = "running"
    /\ UNCHANGED <<websocket_callbacks, latest_readings, db, mpc, mseq, mreading, mkey,
                   itSize, itSeen, itStart, tasks, delivered, accepted, msteps, nTried,
                   nAborted>>
    /\ UNCHANGED <<cmVars, rdVars, edVars, epVars, brVars>>

\* add_websocket_callback, on the event-loop thread.
AddCallback(cb) ==
    /\ websocket_callbacks' = websocket_callbacks \cup {cb}
    /\ UNCHANGED <<loop, latest_readings, db, mpc, mseq, mreading, mkey,
                   itSize, itSeen, itStart, tasks, delivered, accepted, msteps, nTried,
                   nAborted>>
    /\ UNCHANGED <<cmVars, rdVars, edVars, epVars, brVars>>

\* remove_websocket_callback, on the event-loop thread.
RemoveCallback(cb) ==
    /\ websocket_callbacks' = websocket_callbacks \ {cb}
    /\ UNCHANGED <<loop, latest_readings, db, mpc, mseq, mreading, mkey,
                   itSize, itSeen, itStart, tasks, delivered, accepted, msteps, nTried,
                   nAborted>>
    /\ UNCHANGED <<cmVars, rdVars, edVars, epVars, brVars>>

\* A scheduled coroutine callback(message) finishes on the event loop: it has
\* delivered the event, or it raised and _done logs the exception.  The
\* coroutines are separate tasks; each finishes when its own awaits complete.
TaskFinish(t, ok) ==
    /\ t \in tasks
    /\ tasks' = tasks \ {t}
    /\ delivered' = IF ok
                    THEN [delivered EXCEPT ![t.cb] =
                             Append(@, [m |-> t.m, type |-> t.event.type,
                                        data |-> t.event.data])]
                    ELSE delivered
    /\ UNCHANGED <<websocket_callbacks, loop, latest_readings, db, mpc, mseq, mreading,
                   mkey, itSize, itSeen, itStart, accepted, msteps, nTried, nAborted>>
    /\ UNCHANGED <<cmVars, rdVars, edVars, epVars, brVars>>

\* The accepted messages whose cache write has been made.
CacheWrites == IF mpc = "stored" THEN Len(accepted) - 1 ELSE Len(accepted)

\* ------------------------------------- MQTTService: the broker connection
\* The callbacks of paho run one after the other on its network thread, so
\* _on_connect and _on_disconnect run between two messages.  _on_connect is
\* called with the CONNACK of a connection attempt, which the client makes
\* while it has no connection; the client is created with a clean session, so
\* the broker drops its subscriptions when the connection ends.
MaxCallbacks == 3

\* rc of a CONNACK: 0 (accepted) and 5 (refused, not authorized).
ConnackCodes == {0, 5}

Subscriptions == {<<"sensors/+/+", 1>>, <<"nodered/status", 0>>, <<"system/+", 0>>}

\* The topic filter matches the topic ('+' is one segment).
TopicMatches(filter, topic) ==
    \/ filter = "sensors/+/+" /\ Len(topic) = 3 /\ topic[1] = "sensors"
    \/ filter = "system/+" /\ Len(topic) = 2 /\ topic[1] = "system"
    \/ filter = "nodered/status" /\ topic = <<"nodered", "status">>

\* _on_connect that subscribes on the first connect only.
OnConnectOnce(result) ==
    /\ mpc = "idle"
    /\ link = "down"
    /\ nCallbacks < MaxCallbacks
    /\ nCallbacks' = nCallbacks + 1
    /\ IF result = 0
       THEN /\ connected' = TRUE
            /\ subscribed' = IF sessions = 0 THEN Subscriptions ELSE subscribed
            /\ link' = "up"
            /\ lastCallback' = "connect_ok"
            /\ sessions' = sessions + 1
            /\ connectedAt' = mseq
       ELSE /\ lastCallback' = "connect_refused"
            /\ UNCHANGED <<connected, subscribed, link, sessions, connectedAt>>
    /\ UNCHANGED <<cmVars, mqVars, rdVars, edVars, epVars>>

\* _on_connect(client, userdata, flags, rc).
OnConnect(result) ==
    /\ mpc = "idle"
    /\ link = "down"
    /\ nCallbacks < MaxCallbacks
    /\ nCallbacks' = nCallbacks + 1
    /\ IF result = 0
       THEN /\ connected' = TRUE
            /\ subscribed' = subscribed \cup Subscriptions
            /\ link' = "up"
            /\ lastCallback' = "connect_ok"
            /\ sessions' = sessions + 1
            /\ connectedAt' = mseq
       ELSE /\ lastCallback' = "connect_refused"
            /\ UNCHANGED <<connected, subscribed, link, sessions, connectedAt>>
    /\ UNCHANGED <<cmVars, mqVars, rdVars, edVars, epVars>>

\* _on_disconnect that starts the service afresh.
OnDisconnectClears ==
    /\ mpc = "idle"
    /\ link = "up" \/ lastCallback = "connect_refused"
    /\ nCallbacks < MaxCallbacks
    /\ nCallbacks' = nCallbacks + 1
    /\ connected' = FALSE
    /\ subscribed' = {}
    /\ link' = "down"
    /\ lastCallback' = "disconnect"
    /\ latest_readings' = [k \in {} |-> NoReading]
    /\ websocket_callbacks' = {}
    /\ UNCHANGED <<sessions, connectedAt>>
    /\ UNCHANGED <<loop, db, mpc, mseq, mreading, mkey, itSize, itSeen, itStart, tasks,
                   delivered, accepted, msteps, nTried, nAborted>>
    /\ UNCHANGED <<cmVars, rdVars, edVars, epVars>>

\* _on_disconnect(client, userdata, rc): the connection ended, or the broker
\* closed it after refusing the CONNECT.
OnDisconnect ==
    /\ mpc = "idle"
    /\ link = "up" \/ lastCallback = "connect_refused"
    /\ nCallbacks < MaxCallbacks
    /\ nCallbacks' = nCallbacks + 1
    /\ connected' = FALSE
    /\ subscribed' = {}
    /\ link' = "down"
    /\ lastCallback' = "disconnect"
    /\ UNCHANGED <<sessions, connectedAt>>
    /\ UNCHANGED <<cmVars, mqVars, rdVars, edVars, epVars>>

\* The broker sends the client a message published on a topic it subscribed.
Deliver(topic, data) ==
    /\ link = "up"
    /\ \E sub \in subscribed : TopicMatches(sub[1], topic)
    /\ OnMessage(topic, data, TRUE)

\* ------------------------------------------------ read operations (api/v1/sensors.py)
\* Parameters the callers of the read operations pass.
ReadTopics == {<<"sensors", "temperature", "t1">>, <<"sensors", "temperature", "t2">>}

ReadPayloads ==
    {Object(<<22>>, Absent, Absent, Absent, Absent, Absent),
     Object(<<22>>, Absent, Absent, Absent, <<TRUE>>, <<IsoText(1, TRUE)>>)}

SensorIds == {"t1"}
Hours == {1}
Limits == {1, 2}

\* self.latest_readings.copy(): a new dict with the entries of the cache.
GetLatestReadingsShared(cache) == [shared |-> TRUE, mapping |-> cache]

GetLatestReadings(cache) == [shared |-> FALSE, mapping |-> cache]

\* What the holder of a returned mapping sees in it when the service's dict is
\* `cache`: the entries it was returned with, or those of the service's dict if
\* it is that dict.
Seen(res, cache) == IF res.shared THEN cache ELSE res.live

\* SensorReading.timestamp >= start_time and <= end_time, with end_time the
\* present and start_time `hours` earlier.
InWindow(r, hours) == r.timestamp >= now - hours /\ r.timestamp <= now

\* order_by(desc(SensorReading.timestamp)): row i comes before row j.
Before(i, j) ==
    \/ db[i].timestamp > db[j].timestamp
    \/ /\ db[i].timestamp = db[j].timestamp
       /\ IF tie = "inserted" THEN i < j ELSE i > j

\* SensorReadingResponse.from_orm(reading): the row with its primary key.
Row(i) == [id |-> i, reading |-> db[i]]

RECURSIVE OrderBy(_)
OrderBy(S) ==
    IF S = {} THEN <<>>
    ELSE LET first == CHOOSE i \in S : \A j \in S \ {i} : Before(i, j)
         IN  <<Row(first)>> \o OrderBy(S \ {first})

\* .limit(limit)
LimitAll(rows, limit) == rows

Limit(rows, limit) == SubSeq(rows, 1, IF Len(rows) < limit THEN Len(rows) ELSE limit)

\* The rows get_sensor_history and get_anomalies select.
HistoryRows(sensor_id, hours) ==
    {i \in 1..Len(db) : db[i].sensor_id = sensor_id /\ InWindow(db[i], hours)}

AnomalyRows(hours) == {i \in 1..Len(db) : db[i].anomaly /\ InWindow(db[i], hours)}

WindowRows(hours) == {i \in 1..Len(db) : InWindow(db[i], hours)}

\* A read operation returns res for the query q; it writes nothing.
ReadDrains(q, res) ==
    /\ lastRead' = [q |-> q, res |-> res, at |-> now, writes |-> <<Len(db), CacheWrites>>]
    /\ latest_readings' = [k \in {} |-> NoReading]
    /\ UNCHANGED <<websocket_callbacks, loop, db, mpc, mseq, mreading, mkey,
                   itSize, itSeen, itStart, tasks, delivered, accepted, msteps, nTried,
                   nAborted>>
    /\ UNCHANGED <<cmVars, now, tie, edVars, epVars, brVars>>

Read(q, res) ==
    /\ lastRead' = [q |-> q, res |-> res, at |-> now, writes |-> <<Len(db), CacheWrites>>]
    /\ UNCHANGED <<cmVars, mqVars, now, tie, edVars, epVars, brVars>>

\* GET /v1/sensors/live
GetLiveReadings ==
    LET r == GetLatestReadings(latest_readings)
    IN  Read([NoQuery EXCEPT !.op = "live"],
             [NoResult EXCEPT !.status = 200, !.live = r.mapping, !.shared = r.shared,
                              !.count = Cardinality(DOMAIN r.mapping), !.stamp = now])

\* GET /v1/sensors/history
GetSensorHistory(sensor_id, hours, limit) ==
    LET readings == Limit(OrderBy(HistoryRows(sensor_id, hours)), limit)
    IN  Read([op |-> "history", sensor_id |-> sensor_id, hours |-> hours, limit |-> limit],
             IF readings = <<>>
             THEN [NoResult EXCEPT !.status = 404]
             ELSE [NoResult EXCEPT !.status = 200, !.rows = readings,
                                   !.count = Len(readings)])

\* GET /v1/sensors/anomalies
GetAnomalies(hours, limit) ==
    LET anomalies == Limit(OrderBy(AnomalyRows(hours)), limit)
    IN  Read([NoQuery EXCEPT !.op = "anomalies", !.hours = hours, !.limit = limit],
             [NoResult EXCEPT !.status = 200, !.rows = anomalies,
                              !.count = Len(anomalies), !.stamp = now])

\* GET /v1/sensors/stats: the two counts it starts with.
GetSensorStats(hours) ==
    Read([NoQuery EXCEPT !.op = "stats", !.hours = hours],
         [NoResult EXCEPT !.status = 200, !.count = Cardinality(WindowRows(hours)),
                          !.anomalies = Cardinality(AnomalyRows(hours)), !.stamp = now])

\* ------------------------------------------- edge/sensors: the simulators
\* The three simulators (temp_sensor.py, humidity_sensor.py,
\* luminosity_sensor.py) are one program with three sets of thresholds.  Values
\* are floats rounded to two decimals in the code; here they are the integers
\* of a grid that holds each threshold, its neighbours, and the values the
\* generator clamps to.
Sensors == {"temperature", "humidity", "luminosity"}

MaxReadings == 2

None == <<>>

min_temp == 15
max_temp == 35
temp_jump_threshold == 5

min_humidity == 30
max_humidity == 90
humidity_jump_threshold == 20

min_lux == 0
max_lux == 1000
luminosity_jump_threshold == 200

min_value ==
    CASE sensor = "temperature" -> min_temp
      [] sensor = "humidity" -> min_humidity
      [] sensor = "luminosity" -> min_lux

max_value ==
    CASE sensor = "temperature" -> max_temp
      [] sensor = "humidity" -> max_humidity
      [] sensor = "luminosity" -> max_lux

jump_threshold ==
    CASE sensor = "temperature" -> temp_jump_threshold
      [] sensor = "humidity" -> humidity_jump_threshold
      [] sensor = "luminosity" -> luminosity_jump_threshold

Values ==
    CASE sensor = "temperature" -> {14, 15, 17, 20, 22, 25, 27, 33, 35, 36, 45}
      [] sensor = "humidity" -> {25, 29, 30, 35, 50, 70, 71, 85, 90, 91, 95}
      [] sensor = "luminosity" -> {-1, 0, 10, 200, 400, 401, 500, 950, 1000, 1001, 1050}

Abs(x) == IF x < 0 THEN -x ELSE x

Max(a, b) == IF a >= b THEN a ELSE b

Min(a, b) == IF a <= b THEN a ELSE b

\* random.uniform(a, b), rounded: any value of the grid from a to b.
Uniform(a, v, b) == a <= v /\ v <= b

\* generate_temperature can return v with this last_value.
generate_temperature(v) ==
    \/ Uniform(min_temp - 10, v, min_temp - 1)
    \/ Uniform(max_temp + 1, v, max_temp + 10)
    \/ /\ last_value # None
       /\ \E jump_direction \in {-1, 1} :
             \E jump_size \in (jump_threshold + 1)..(jump_threshold + 5) :
                v = last_value[1] + jump_direction * jump_size
    \/ IF last_value # None
       THEN \E drift \in (-2)..2 :
               v = Max(min_temp + 2, Min(max_temp - 2, last_value[1] + drift))
       ELSE Uniform(min_temp + 2, v, max_temp - 2)

generate_humidity(v) ==
    \/ Uniform(0, v, min_humidity - 5)
    \/ Uniform(max_humidity + 5, v, 100)
    \/ /\ last_value # None
       /\ \E jump_direction \in {-1, 1} :
             \E jump_size \in (jump_threshold + 5)..(jump_threshold + 15) :
                v = Max(0, Min(100, last_value[1] + jump_direction * jump_size))
    \/ IF last_value # None
       THEN \E drift \in (-5)..5 :
               v = Max(min_humidity + 5, Min(max_humidity - 5, last_value[1] + drift))
       ELSE Uniform(min_humidity + 5, v, max_humidity - 5)

\* The drift is base_drift (-20 to 20) plus the pattern of the hour (0 to 50
\* by day, -30 to 0 by night).
generate_luminosity(v) ==
    \/ Uniform(-50, v, min_lux - 1)
    \/ Uniform(max_lux + 50, v, max_lux + 500)
    \/ /\ last_value # None
       /\ \E jump_direction \in {-1, 1} :
             \E jump_size \in (jump_threshold + 50)..(jump_threshold + 200) :
                v = Max(0, last_value[1] + jump_direction * jump_size)
    \/ IF last_value # None
       THEN \E day \in BOOLEAN :
               \E drift \in (IF day THEN (-20)..70 ELSE (-50)..20) :
                  v = Max(min_lux + 10, Min(max_lux - 50, last_value[1] + drift))
       ELSE Uniform(200, v, 800) \/ Uniform(0, v, 100)

generate(v) ==
    CASE sensor = "temperature" -> generate_temperature(v)
      [] sensor = "humidity" -> generate_humidity(v)
      [] sensor = "luminosity" -> generate_luminosity(v)

detect_anomaly_exclusive(value) ==
    \/ value <= min_value \/ value >= max_value
    \/ last_value # None /\ Abs(value - last_value[1]) > jump_threshold

detect_anomaly_from_threshold(value) ==
    \/ value < min_value \/ value > max_value
    \/ last_value # None /\ Abs(value - last_value[1]) >= jump_threshold

detect_anomaly(value) ==
    \/ value < min_value \/ value > max_value
    \/ last_value # None /\ Abs(value - last_value[1]) > jump_threshold

ReturnCodes == {"MQTT_ERR_SUCCESS", "MQTT_ERR_NO_CONN"}

NoPayload ==
    [type |-> "", value |-> 0, anomaly |-> FALSE, anomaly_details |-> Absent]

\* The payload without the keys that are constant or the clock's (ts, unit,
\* sensor_id, origin).
create_payload_of_range(value) ==
    [type |-> sensor, value |-> value,
     anomaly |-> value < min_value \/ value > max_value,
     anomaly_details |->
        IF detect_anomaly(value)
        THEN <<[out_of_range |-> value < min_value \/ value > max_value,
                sudden_jump |-> /\ last_value # None
                                /\ Abs(value - last_value[1]) > jump_threshold,
                previous_value |-> last_value]>>
        ELSE Absent]

create_payload(value) ==
    [type |-> sensor, value |-> value, anomaly |-> detect_anomaly(value),
     anomaly_details |->
        IF detect_anomaly(value)
        THEN <<[out_of_range |-> value < min_value \/ value > max_value,
                sudden_jump |-> /\ last_value # None
                                /\ Abs(value - last_value[1]) > jump_threshold,
                previous_value |-> last_value]>>
        ELSE Absent]

NoCall == [fn |-> "none", value |-> 0, last |-> None, verdict |-> FALSE,
           payload |-> NoPayload]

\* publish_reading that remembers the value only when the broker took it.
publish_reading_on_success(value, result) ==
    /\ Len(published) < MaxReadings
    /\ generate(value)
    /\ published' = Append(published, create_payload(value))
    /\ rc' = result
    /\ last_value' = IF result = "MQTT_ERR_SUCCESS" THEN <<value>> ELSE last_value
    /\ UNCHANGED <<sensor, call>>
    /\ UNCHANGED <<cmVars, mqVars, rdVars, epVars, brVars>>

\* publish_reading with a last_value that stays what it was.
publish_reading_keeps(value, result) ==
    /\ Len(published) < MaxReadings
    /\ generate(value)
    /\ published' = Append(published, create_payload(value))
    /\ rc' = result
    /\ UNCHANGED <<sensor, last_value, call>>
    /\ UNCHANGED <<cmVars, mqVars, rdVars, epVars, brVars>>

\* publish_reading: generate, create_payload, publish, last_value = value.  The
\* broker's answer (result.rc) is success or a failure code; last_value is set
\* in both cases.
publish_reading(value, result) ==
    /\ Len(published) < MaxReadings
    /\ generate(value)
    /\ published' = Append(published, create_payload(value))
    /\ rc' = result
    /\ last_value' = <<value>>
    /\ UNCHANGED <<sensor, call>>
    /\ UNCHANGED <<cmVars, mqVars, rdVars, epVars, brVars>>

\* A caller of detect_anomaly(value), as the repository's tests are.
DetectAnomaly(value) ==
    /\ call' = [NoCall EXCEPT !.fn = "detect_anomaly", !.value = value,
                              !.last = last_value, !.verdict = detect_anomaly(value)]
    /\ UNCHANGED <<sensor, last_value, published, rc>>
    /\ UNCHANGED <<cmVars, mqVars, rdVars, epVars, brVars>>

\* A caller of create_payload(value).
CreatePayload(value) ==
    /\ call' = [NoCall EXCEPT !.fn = "create_payload", !.value = value,
                              !.last = last_value, !.payload = create_payload(value)]
    /\ UNCHANGED <<sensor, last_value, published, rc>>
    /\ UNCHANGED <<cmVars, mqVars, rdVars, epVars, brVars>>

InitState ==
    /\ ws = [c \in Conns |-> "new"]
    /\ active_connections = <<>>
    /\ total_readings = 0
    /\ cmMsgs = 0
    /\ bpc = "idle"
    /\ bmsg = 0
    /\ bidx = 0
    /\ bcur = NoConn
    /\ bstuck = FALSE
    /\ disconnected = <<>>
    /\ received = [c \in Conns |-> <<>>]
    /\ bstart = <<>>
    /\ battempt = [c \in Conns |-> 0]
    /\ bfailed = {}
    /\ bintf = FALSE
    /\ websocket_callbacks = {}
    /\ loop = "unset"
    /\ latest_readings = [k \in {} |-> NoReading]
    /\ db = <<>>
    /\ mpc = "idle"
    /\ mseq = 0
    /\ mreading = NoReading
    /\ mkey = ""
    /\ itSize = 0
    /\ itSeen = {}
    /\ tasks = {}
    /\ delivered = [cb \in Callbacks |-> <<>>]
    /\ accepted = <<>>
    /\ msteps = <<>>
    /\ itStart = {}
    /\ nTried = {}
    /\ nAborted = FALSE
    /\ now = 0
    /\ lastRead = NoRead
    /\ last_value = None
    /\ published = <<>>
    /\ rc = "none"
    /\ call = NoCall
    /\ greeted = {}
    /\ replies = [c \in Conns |-> <<>>]
    /\ wsMsgs = 0
    /\ lastMsg = NoMsg
    /\ connected = FALSE
    /\ subscribed = {}
    /\ link = "down"
    /\ lastCallback = "none"
    /\ nCallbacks = 0
    /\ sessions = 0
    /\ connectedAt = 0

\* The engine returns rows of equal timestamp in the order they were inserted.
Init == InitState /\ tie = "inserted" /\ sensor = "temperature"

\* Any engine: SQL leaves the order of rows that ORDER BY does not tell apart
\* to the engine.
InitRead == InitState /\ tie \in TieOrders /\ sensor = "temperature"

\* Any of the three simulators.
InitSensor == InitState /\ tie = "inserted" /\ sensor \in Sensors

Next ==
    \/ \E ok \in BOOLEAN : HandleMqttMessage(ok)
    \/ \E ok \in BOOLEAN : SendReturn(ok)
    \/ \E c \in Conns : Connect(c)
    \/ \E c \in Conns : AcceptFails(c)
    \/ \E c \in Conns : EndpointDisconnect(c)

Spec == Init /\ [][Next]_vars

\* MQTTService with every subscriber: one sensor, any registration and any order
\* of the scheduled coroutines.
NextMQ ==
    \/ \E data \in Payloads : OnMessage(<<"sensors", "temperature", "t1">>, data, TRUE)
    \/ CacheWrite
    \/ NotifyEnter
    \/ \E schedOk \in BOOLEAN : NotifyNext(schedOk)
    \/ SetEventLoop
    \/ \E cb \in Callbacks : AddCallback(cb)
    \/ \E cb \in Callbacks : RemoveCallback(cb)
    \/ \E t \in tasks, ok \in BOOLEAN : TaskFinish(t, ok)

SpecMQ == Init /\ [][NextMQ]_vars

\* MQTTService with every input: any topic, payload and database outcome, and one
\* subscriber.
NextIngest ==
    \/ \E topic \in Topics, data \in Payloads, dbOk \in BOOLEAN : OnMessage(topic, data, dbOk)
    \/ CacheWrite
    \/ NotifyEnter
    \/ \E schedOk \in BOOLEAN : NotifyNext(schedOk)
    \/ SetEventLoop
    \/ AddCallback("cbA")
    \/ RemoveCallback("cbA")
    \/ \E t \in tasks, ok \in BOOLEAN : TaskFinish(t, ok)

SpecIngest == Init /\ [][NextIngest]_vars

\* MQTTService with the inputs that name the sensor in the topic, in the payload
\* or in both, and one subscriber.
NextIdent ==
    \/ \E topic \in IdentTopics, data \in IdentPayloads : OnMessage(topic, data, TRUE)
    \/ CacheWrite
    \/ NotifyEnter
    \/ \E schedOk \in BOOLEAN : NotifyNext(schedOk)
    \/ SetEventLoop
    \/ AddCallback("cbA")
    \/ RemoveCallback("cbA")
    \/ \E t \in tasks, ok \in BOOLEAN : TaskFinish(t, ok)

SpecIdent == Init /\ [][NextIdent]_vars

\* The clock moves on.
Tick ==
    /\ now < MaxTime
    /\ now' = now + 1
    /\ UNCHANGED <<cmVars, mqVars, tie, lastRead, edVars, epVars, brVars>>

\* MQTTService with the inputs that tell what is decoded, a clock, and one
\* subscriber whose coroutines complete.
NextDecode ==
    \/ \E topic \in DecodeTopics, data \in DecodePayloads : OnMessage(topic, data, TRUE)
    \/ CacheWrite
    \/ NotifyEnter
    \/ NotifyNext(TRUE)
    \/ SetEventLoop
    \/ AddCallback("cbA")
    \/ \E t \in tasks : TaskFinish(t, TRUE)
    \/ Tick

SpecDecode == Init /\ [][NextDecode]_vars

\* MQTTService without subscribers, a clock, and the callers of the read
\* operations.
NextRead ==
    \/ \E topic \in ReadTopics, data \in ReadPayloads : OnMessage(topic, data, TRUE)
    \/ CacheWrite
    \/ NotifyEnter
    \/ Tick
    \/ GetLiveReadings
    \/ \E sensor_id \in SensorIds, hours \in Hours, limit \in Limits :
          GetSensorHistory(sensor_id, hours, limit)
    \/ \E hours \in Hours, limit \in Limits : GetAnomalies(hours, limit)
    \/ \E hours \in Hours : GetSensorStats(hours)

SpecRead == InitRead /\ [][NextRead]_vars

\* The websockets of two clients, from accept to the end of their endpoint, and
\* the registration of one callback of the bridge.
EndpointConns == {"A", "B"}

NextWs ==
    \/ \E c \in EndpointConns : Connect(c)
    \/ \E c \in EndpointConns : AcceptFails(c)
    \/ \E c \in EndpointConns : \E ok \in BOOLEAN : Welcome(c, ok)
    \/ \E c \in EndpointConns : \E kind \in ClientMessages : \E ok \in BOOLEAN :
          ClientMessage(c, kind, ok)
    \/ \E c \in EndpointConns : EndpointDisconnect(c)
    \/ AddCallback("cbA")
    \/ RemoveCallback("cbA")

SpecWs == Init /\ [][NextWs]_vars

\* MQTTService and its broker: connects, disconnects and reconnects, the
\* messages of one sensor the broker delivers, and one subscriber.
NextBroker ==
    \/ \E result \in ConnackCodes : OnConnect(result)
    \/ OnDisconnect
    \/ \E data \in ReadPayloads : Deliver(<<"sensors", "temperature", "t1">>, data)
    \/ CacheWrite
    \/ NotifyEnter
    \/ NotifyNext(TRUE)
    \/ SetEventLoop
    \/ AddCallback("cbA")
    \/ \E t \in tasks : TaskFinish(t, TRUE)

SpecBroker == Init /\ [][NextBroker]_vars

\* One simulator: its publish loop, and callers of its two pure methods.
NextSensor ==
    \/ \E value \in Values : \E result \in ReturnCodes : publish_reading(value, result)
    \/ \E value \in Values : DetectAnomaly(value)
    \/ \E value \in Values : CreatePayload(value)

SpecSensor == InitSensor /\ [][NextSensor]_vars

\* The event loop runs every coroutine that is ready: a handler whose message
\* arrived is started and a send that completed is resumed.  Nothing makes a
\* client connect or disconnect, and nothing completes a send that hangs.
FairSpec ==
    /\ Spec
    /\ WF_vars(\E ok \in BOOLEAN : HandleMqttMessage(ok))
    /\ WF_vars(\E ok \in BOOLEAN : SendReturn(ok))

\* ---------------------------------------------------------------- claims
BroadcastReturns == bpc = "sending" /\ bpc' = "idle"

\* C1: a broadcast during which no other coroutine connected or disconnected
\* attempts exactly one send on every connection of the starting list, and when
\* it returns the live list is the starting list minus the connections whose
\* send raised.
C1_BroadcastExactlyOnce ==
    [][(BroadcastReturns /\ ~bintf') =>
         /\ \A c \in Conns :
              battempt'[c] = IF c \in Range(bstart) THEN 1 ELSE 0
         /\ active_connections' = SelectSeq(bstart, LAMBDA c : c \notin bfailed')]_vars

\* A broadcast over two or more connections returned undisturbed, with some
\* sends raised and some delivered.
C1_Witness ==
    /\ bpc = "idle"
    /\ bmsg > 0
    /\ ~bintf
    /\ Len(bstart) >= 2
    /\ bfailed # {}
    /\ Range(bstart) \ bfailed # {}
    /\ active_connections = SelectSeq(bstart, LAMBDA c : c \notin bfailed)

\* C2: when another coroutine disconnects (or connects) a websocket while the
\* broadcast is suspended in a send, every connection that was registered when
\* the broadcast started and is still registered when it returns was sent the
\* message: none is skipped.
C2_NoConnectionSkipped ==
    [][BroadcastReturns =>
         \A c \in Range(bstart) \cap Range(active_connections') :
            battempt'[c] >= 1]_vars

\* C3: a send that never completes does not block the fan-out: when a broadcast
\* stays suspended for ever in the send to a connected client, every other
\* connection registered when the broadcast started is eventually sent the
\* message or removed from the live list.
C3_StuckSendDoesNotBlock ==
    \A c \in Conns :
       <>[](bpc = "sending" /\ bstuck /\ ws[bcur] = "open"
            /\ c \in Range(bstart) /\ c # bcur)
          => <>(bpc = "sending" /\ bstuck /\ c \in Range(bstart)
                /\ (battempt[c] >= 1 \/ c \notin Range(active_connections)))

\* C7: every handled message is delivered exactly once to every subscriber
\* that is registered for the whole broadcast, never twice to anyone, and a
\* websocket whose endpoint has disconnected is not in the live list.
C7_ExactlyOneDelivery ==
    [][/\ BroadcastReturns =>
            /\ \A c \in Range(bstart) \cap Range(active_connections') :
                  Count(received'[c], bmsg) = 1
            /\ \A c \in Conns : Count(received'[c], bmsg) <= 1
       /\ \A c \in Conns : ws'[c] = "closed" => c \notin Range(active_connections')]_vars

\* C4: every subscriber receives the events in the order in which the bridge
\* handled their messages.
C4_PerSubscriberOrder ==
    \A cb \in Callbacks :
       \A i, j \in 1..Len(delivered[cb]) :
          i < j => delivered[cb][i].m < delivered[cb][j].m

NotificationEnds == mpc = "notify" /\ mpc' = "idle"

\* C5: registering or unregistering a callback while a notification iterates
\* the set does not abort the notification, and every callback registered
\* before the notification started and still registered when it ends was
\* scheduled for the message.
C5_RegistrationSafeDuringFanout ==
    [][NotificationEnds =>
         /\ ~nAborted'
         /\ \A cb \in itStart \cap websocket_callbacks' : cb \in nTried']_vars

\* C6: when the coroutine of a callback raises, the callback is unregistered.
C6_FailedCallbackUnregistered ==
    [][\A t \in tasks \ tasks' :
          delivered' = delivered => t.cb \notin websocket_callbacks']_vars

\* The order of the bridge's steps that C8 states.
ClaimedOrder == <<"lookup", "classify", "cache", "history", "submit">>

IsPrefix(s, t) == Len(s) <= Len(t) /\ \A i \in 1..Len(s) : s[i] = t[i]

\* C8: the bridge reads the previous value, classifies, writes the cache,
\* appends to history and submits the event, in this order; so whenever the
\* record of the message being handled is in history, its reading is in the
\* cache already.
C8_BridgeStepOrder ==
    /\ IsPrefix(msteps, ClaimedOrder)
    /\ (mpc # "idle" /\ accepted[Len(accepted)].dbOk) =>
          /\ mkey \in DOMAIN latest_readings
          /\ latest_readings[mkey] = mreading


\* C9: the history record and the cache entry of every accepted message are
\* written whatever becomes of its delivery: history holds the readings of the
\* accepted messages in order (those the database took), and the cache holds,
\* for every key, the reading of the last message handled for it.
C9_StoreIndependentOfDelivery ==
    /\ LET rows == SelectSeq(accepted, LAMBDA a : a.dbOk)
       IN  db = [i \in 1..Len(rows) |-> rows[i].reading]
    /\ DOMAIN latest_readings = {CacheKey(accepted[i].topic) : i \in 1..CacheWrites}
    /\ \A i \in 1..CacheWrites :
          (\A j \in (i + 1)..CacheWrites : accepted[j].topic # accepted[i].topic)
             => latest_readings[CacheKey(accepted[i].topic)] = accepted[i].reading

\* Two messages were stored and cached, a callback was called for the last one,
\* every scheduled coroutine has finished and nothing was ever delivered.
C9_Witness ==
    /\ mpc = "idle"
    /\ Len(accepted) >= 2
    /\ Len(db) >= 2
    /\ DOMAIN latest_readings # {}
    /\ nTried # {}
    /\ tasks = {}
    /\ \A cb \in Callbacks : delivered[cb] = <<>>

\* C10: the stored anomaly flag depends on the sensor type, the value and the
\* previous value of the key only, never on the sender's `anomaly` field.
C10_AnomalyNotFromSender ==
    \A i, j \in 1..Len(accepted) :
       (/\ accepted[i].reading.sensor_type = accepted[j].reading.sensor_type
        /\ accepted[i].reading.value = accepted[j].reading.value
        /\ accepted[i].prev = accepted[j].prev)
          => accepted[i].reading.anomaly = accepted[j].reading.anomaly

\* Sensor types some part of the repository has an anomaly policy for (the edge
\* simulators); the bridge itself has none.
PolicyTypes == {"temperature", "humidity", "luminosity"}

\* C11: a reading whose sensor_type has no configured policy is stored and
\* broadcast with anomaly = false, whatever its value and its payload hold.
C11_NoPolicyNeverAnomalous ==
    /\ \A i \in 1..Len(db) :
          db[i].sensor_type \notin PolicyTypes => ~db[i].anomaly
    /\ \A cb \in Callbacks : \A i \in 1..Len(delivered[cb]) :
          delivered[cb][i].data.sensor_type \notin PolicyTypes
             => ~delivered[cb][i].data.anomaly

\* The decoding failures the claim names.
FailsDecoding(topic, data) == ~data.json \/ data.value = Absent \/ Len(topic) < 3

\* C12: a message that fails decoding (no JSON, no 'value', a topic of fewer than
\* three segments) is dropped without effect: the cache, the history and the
\* subscriber set are unchanged, nothing is scheduled or delivered, and the
\* handler is back idle for the next message (only the message count moved).
C12_DecodeFailureDropped ==
    [][\A topic \in DecodeTopics, data \in DecodePayloads :
          (FailsDecoding(topic, data) /\ OnMessage(topic, data, TRUE))
             => /\ UNCHANGED <<latest_readings, db, websocket_callbacks, loop,
                               tasks, delivered, accepted, mreading, mkey, msteps>>
                /\ mpc' = "idle"
                /\ mseq' = mseq + 1]_vars

\* A message was dropped (message 1 is not among the accepted) and a later
\* message was stored, cached and delivered.
C12_Witness ==
    /\ Len(accepted) = 1
    /\ accepted[1].m = 2
    /\ Len(db) = 1
    /\ DOMAIN latest_readings = {"temperature_t1"}
    /\ \E i \in 1..Len(delivered["cbA"]) : delivered["cbA"][i].m = 2

\* A message with a usable value: it decodes and float(value) succeeds.
UsableValue(topic, data) ==
    /\ ~FailsDecoding(topic, data)
    /\ FloatOk(data.value[1])

\* C13: a message with a usable value is never dropped because of its timestamp:
\* whatever 'ts' holds (nothing, a text that is no date, an ISO text with or
\* without Z, a JSON value that is no text) the reading is stored and goes on to
\* the cache and the subscribers, with the time of ingestion as its timestamp
\* when 'ts' gives no time.
C13_TimestampNeverRejects ==
    [][\A topic \in DecodeTopics, data \in DecodePayloads :
          (UsableValue(topic, data) /\ OnMessage(topic, data, TRUE))
             => /\ Len(db') = Len(db) + 1
                /\ db'[Len(db')].value = data.value[1]
                /\ db'[Len(db')].timestamp =
                      (IF data.ts # Absent /\ data.ts[1].kind = "iso"
                       THEN data.ts[1].t ELSE now)
                /\ mreading' = db'[Len(db')]
                /\ mpc' = "stored"]_vars

\* The sensor type the payload supplies, under either of its two keys.
SuppliedType(data) == IF data.type # Absent THEN data.type ELSE data.sensor_type

\* C14: sensor_type and sensor_id of a stored reading are the payload's when the
\* payload supplies them (key 'type' or key 'sensor_type', and key 'sensor_id')
\* and the topic's segments otherwise; an accepted message adds exactly one
\* history record, with these fields and the payload's value.
C14_IdentityFromPayloadOrTopic ==
    [][\A topic \in IdentTopics, data \in IdentPayloads :
          (UsableValue(topic, data) /\ OnMessage(topic, data, TRUE))
             => /\ Len(db') = Len(db) + 1
                /\ SubSeq(db', 1, Len(db)) = db
                /\ db'[Len(db')].sensor_type = Get(SuppliedType(data), topic[2])
                /\ db'[Len(db')].sensor_id = Get(data.sensor_id, topic[3])
                /\ db'[Len(db')].value = data.value[1]]_vars

\* The accepted message the handler last took, and its cache key.
LastAccepted == accepted[Len(accepted)]

LastKey == CacheKey(LastAccepted.topic)

\* C15: the cache entry of a key holds the reading of the message most recently
\* handled for that key: a key once in the cache stays, an entry changes only by
\* the cache write of a message for its key and is then that message's reading,
\* and a message for another key leaves it as it was.
C15_CachePerKeyLatest ==
    [][/\ \A k \in DOMAIN latest_readings : k \in DOMAIN latest_readings'
       /\ \A k \in DOMAIN latest_readings' :
             (k \notin DOMAIN latest_readings \/ latest_readings'[k] # latest_readings[k])
                => /\ mpc = "stored" /\ mpc' = "cached"
                   /\ k = LastKey
       /\ (mpc = "stored" /\ mpc' = "cached")
             => /\ LastKey \in DOMAIN latest_readings'
                /\ latest_readings'[LastKey] = LastAccepted.reading]_vars

\* Two keys are cached, and the message for the second key has left the entry of
\* the first, a different reading, as it was.
C15_Witness ==
    /\ mpc = "idle"
    /\ Len(accepted) = 2
    /\ CacheKey(accepted[1].topic) # CacheKey(accepted[2].topic)
    /\ accepted[1].reading # accepted[2].reading
    /\ DOMAIN latest_readings = {CacheKey(accepted[1].topic), CacheKey(accepted[2].topic)}
    /\ latest_readings[CacheKey(accepted[1].topic)] = accepted[1].reading
    /\ latest_readings[CacheKey(accepted[2].topic)] = accepted[2].reading

\* The (sensor_type, sensor_id) a reading carries.
Pair(reading) == <<reading.sensor_type, reading.sensor_id>>

\* C16: every cache entry is stored under the key of the (sensor_type, sensor_id)
\* its reading carries, and readings of different pairs never share an entry.
C16_CacheKeyIsReadingIdentity ==
    /\ \A k \in DOMAIN latest_readings :
          k = latest_readings[k].sensor_type \o "_" \o latest_readings[k].sensor_id
    /\ \A i, j \in 1..Len(accepted) :
          Pair(accepted[i].reading) # Pair(accepted[j].reading)
             => CacheKey(accepted[i].topic) # CacheKey(accepted[j].topic)

\* C17: the mapping get_latest_readings returns is a snapshot: it holds the cache
\* as it was at the call, and no later step of the service (an ingestion on the
\* MQTT thread included) adds, removes or replaces an entry the holder sees.
C17_SnapshotNotLive ==
    [][/\ (lastRead' # lastRead /\ lastRead'.q.op = "live")
             => Seen(lastRead'.res, latest_readings') = latest_readings
       /\ (lastRead' = lastRead /\ lastRead.q.op = "live")
             => Seen(lastRead.res, latest_readings')
                   = Seen(lastRead.res, latest_readings)]_vars

\* A caller holds a mapping with an entry, and the cache has changed since.
C17_Witness ==
    /\ lastRead.q.op = "live"
    /\ DOMAIN lastRead.res.live # {}
    /\ Seen(lastRead.res, latest_readings) = lastRead.res.live
    /\ latest_readings # lastRead.res.live

\* A read operation returns (to a caller that had another result before).
ReadReturns == lastRead' # lastRead

\* The read repeats the query of the read before, with no write in between.
RepeatsRead == lastRead'.q = lastRead.q /\ lastRead'.writes = lastRead.writes

\* What a result says of the readings: everything but the time the response is
\* stamped with.
Content(res) == [res EXCEPT !.stamp = 0]

C19_HistoryWithinCapacity == Len(db) <= Capacity

\* The reading r matches the filter of the history or anomalies query q, made
\* at the time t.
Matches(q, r, t) ==
    /\ q.op = "history" => r.sensor_id = q.sensor_id
    /\ q.op = "anomalies" => r.anomaly
    /\ r.timestamp >= t - q.hours
    /\ r.timestamp <= t

\* Rows of the table that match q, and those among them other than row i that
\* are newer than row i, or at least as new.
Matching(q, t) == {i \in 1..Len(db) : Matches(q, db[i], t)}

Newer(q, t, i) == {j \in Matching(q, t) : db[j].timestamp > db[i].timestamp}

AsNew(q, t, i) == {j \in Matching(q, t) \ {i} : db[j].timestamp >= db[i].timestamp}

\* A history or anomalies query returns.
QueryReturns == ReadReturns /\ lastRead'.q.op \in {"history", "anomalies"}

\* The rows a result holds, by primary key.
Returned(rows) == {rows[k].id : k \in 1..Len(rows)}

\* The rows are rows of the table that match q, each once, newest first, no
\* more than the limit, and as many as the limit allows.
FilteredSortedLimited(q, rows, t) ==
    /\ \A k \in 1..Len(rows) :
          /\ rows[k].id \in Matching(q, t)
          /\ rows[k].reading = db[rows[k].id]
    /\ \A k, l \in 1..Len(rows) :
          k < l => /\ rows[k].id # rows[l].id
                   /\ rows[k].reading.timestamp >= rows[l].reading.timestamp
    /\ Len(rows) <= q.limit
    /\ Len(rows) = q.limit \/ Len(rows) = Cardinality(Matching(q, t))

C21_EmptyHistorySucceeds ==
    [][(ReadReturns /\ lastRead'.q.op = "history") =>
          /\ lastRead'.res.status = 200
          /\ Matching(lastRead'.q, now) = {} =>
                /\ lastRead'.res.rows = <<>>
                /\ lastRead'.res.count = 0]_vars

\* The two conditions of an anomaly, for a value and the value before it.
OutOfRange(value) == value < min_value \/ value > max_value

SuddenJump(value, previous) ==
    previous # None /\ Abs(value - previous[1]) > jump_threshold

\* C22: with no previous value, detect_anomaly returns false for every value
\* from min to max, min and max themselves included, and true for every value
\* below min or above max, for each of the three sensors.
C22_RangeWithoutPrevious ==
    (call.fn = "detect_anomaly" /\ call.last = None) =>
        /\ (min_value <= call.value /\ call.value <= max_value) => ~call.verdict
        /\ (call.value < min_value \/ call.value > max_value) => call.verdict

\* detect_anomaly was called with a value equal to a bound before the first
\* reading, and returned false.
C22_Witness ==
    /\ call.fn = "detect_anomaly"
    /\ call.last = None
    /\ call.value \in {min_value, max_value}
    /\ ~call.verdict

\* C23: with a previous value, and a new value within [min, max],
\* detect_anomaly returns true exactly when the distance between the two is
\* strictly greater than jump_threshold; a jump equal to the threshold, up or
\* down, is not an anomaly.
C23_JumpStrictlyGreater ==
    (/\ call.fn = "detect_anomaly"
     /\ call.last # None
     /\ min_value <= call.value
     /\ call.value <= max_value) =>
        call.verdict = (Abs(call.value - call.last[1]) > jump_threshold)

\* detect_anomaly was called with a value in range that is exactly the
\* threshold below the previous one, and returned false.
C23_Witness ==
    /\ call.fn = "detect_anomaly"
    /\ call.last # None
    /\ min_value <= call.value
    /\ call.value = call.last[1] - jump_threshold
    /\ ~call.verdict

\* The payload p, made for value with the previous value last_value, tells the
\* anomaly and its two conditions as they are.
Consistent(p, value) ==
    /\ p.value = value
    /\ p.anomaly = detect_anomaly(value)
    /\ p.anomaly = (OutOfRange(value) \/ SuddenJump(value, last_value))
    /\ (p.anomaly_details # Absent) = p.anomaly
    /\ p.anomaly_details # Absent =>
          /\ p.anomaly_details[1].out_of_range = OutOfRange(value)
          /\ p.anomaly_details[1].sudden_jump = SuddenJump(value, last_value)

\* C24: in every payload create_payload builds, `anomaly` is what
\* detect_anomaly returns for the value, which is true exactly when the value is
\* out of range or a sudden jump from the current previous value;
\* anomaly_details is there exactly when anomaly is true, and its out_of_range
\* and sudden_jump flags are those two conditions.
C24_PayloadTellsTheAnomaly ==
    [][/\ (call' # call /\ call'.fn = "create_payload") =>
             Consistent(call'.payload, call'.value)
       /\ published' # published =>
             Consistent(published'[Len(published')],
                        published'[Len(published')].value)]_vars

\* create_payload has built a payload for a value in range that is a sudden
\* jump: anomaly is true and the details say sudden_jump and not out_of_range.
C24_Witness ==
    /\ call.fn = "create_payload"
    /\ call.payload.anomaly
    /\ call.payload.anomaly_details # Absent
    /\ call.payload.anomaly_details[1].sudden_jump
    /\ ~call.payload.anomaly_details[1].out_of_range

\* The value of the reading before reading n of the simulator.
Previous(n) == IF n = 1 THEN None ELSE <<published[n - 1].value>>

\* C25: over any sequence of readings of one source, the previous value used
\* for the jump detection of reading n, and reported as previous_value in its
\* anomaly details, is the value of reading n-1, and none for the first
\* reading; for 22 followed by 45 with min 15, max 35 and jump_threshold 5 the
\* second reading has anomaly, out_of_range and sudden_jump all true and
\* previous_value 22.
C25_PreviousIsTheReadingBefore ==
    \A n \in 1..Len(published) :
       LET p == published[n]
       IN  /\ p.anomaly = (OutOfRange(p.value) \/ SuddenJump(p.value, Previous(n)))
           /\ p.anomaly_details # Absent =>
                 /\ p.anomaly_details[1].previous_value = Previous(n)
                 /\ p.anomaly_details[1].sudden_jump = SuddenJump(p.value, Previous(n))
           /\ (/\ sensor = "temperature"
               /\ Previous(n) = <<22>>
               /\ p.value = 45) =>
                 /\ p.anomaly
                 /\ p.anomaly_details # Absent
                 /\ p.anomaly_details[1].out_of_range
                 /\ p.anomaly_details[1].sudden_jump
                 /\ p.anomaly_details[1].previous_value = <<22>>

\* The temperature simulator has published 22 and then 45, and the broker
\* refused the second.
C25_Witness ==
    /\ sensor = "temperature"
    /\ Len(published) = 2
    /\ published[1].value = 22
    /\ published[2].value = 45
    /\ last_value = <<45>>
    /\ rc = "MQTT_ERR_NO_CONN"

\* C26: unregistering is idempotent.  disconnect of a websocket that is not in
\* active_connections, and remove_websocket_callback of a callback that is not
\* registered, leave the set as it is (and raise nothing); after either, the
\* websocket or callback is not registered, so a second call changes nothing.
C26_UnregisterIdempotent ==
    [][/\ \A c \in Conns :
             EndpointDisconnect(c) =>
                /\ c \notin Range(active_connections) =>
                      active_connections' = active_connections
                /\ c \notin Range(active_connections')
                /\ Disconnect(active_connections', c) = active_connections'
       /\ \A cb \in Callbacks :
             RemoveCallback(cb) =>
                /\ cb \notin websocket_callbacks =>
                      websocket_callbacks' = websocket_callbacks
                /\ cb \notin websocket_callbacks']_vars

\* The welcome message of a websocket could not be sent, so send_message
\* disconnected it; then its endpoint ended and disconnected it again, and the
\* other websocket is still registered.
C26_Witness ==
    \E c \in Conns :
       /\ ws[c] = "closed"
       /\ c \in greeted
       /\ replies[c] = <<>>
       /\ wsMsgs = 0
       /\ c \notin Range(active_connections)
       /\ active_connections # <<>>

\* C27: a websocket goes from connecting to open to closed.  It is in
\* active_connections only after its accept succeeded, never if accept raised;
\* once removed it is never added again; and it is in the list at most once.
C27_ConnectionLifecycle ==
    [][\A c \in Conns :
          /\ Count(active_connections', c) <= 1
          /\ c \in Range(active_connections') => ws'[c] # "new"
          /\ Count(active_connections', c) > Count(active_connections, c) =>
                ws[c] = "new" /\ ws'[c] = "open"
          /\ ws[c] # "new" => ws'[c] # "new"
          /\ ws[c] = "closed" => ws'[c] = "closed"]_vars

\* One websocket was never accepted, one is open and registered, and one is
\* open and was removed by a broadcast whose send to it failed.
C27_Witness ==
    \E c, d, e \in Conns :
       /\ ws[c] = "closed" /\ received[c] = <<>> /\ battempt[c] = 0
       /\ ws[d] = "open" /\ d \in Range(active_connections)
       /\ ws[e] = "open" /\ e \notin Range(active_connections)
       /\ bpc = "idle"

\* A client message has been handled.
MessageHandled == wsMsgs' # wsMsgs

\* C28: each ping of a client on an open connection causes exactly one pong,
\* sent on that connection, and nothing on any other connection; when the send
\* succeeds the set of live connections is unchanged.
C28_PingPong ==
    [][(MessageHandled /\ lastMsg'.kind = "ping") =>
          LET c == lastMsg'.conn
              sends == lastMsg'.sends
          IN  /\ ws[c] = "open"
              /\ Len(sends) = 1
              /\ sends[1].to = c
              /\ sends[1].type = "pong"
              /\ \A d \in Conns \ {c} : replies'[d] = replies[d]
              /\ replies'[c] = IF sends[1].ok THEN Append(replies[c], "pong")
                               ELSE replies[c]
              /\ sends[1].ok => active_connections' = active_connections]_vars

\* A client was answered its ping while another client, connected and
\* welcomed, got nothing else.
C28_Witness ==
    \E c, d \in Conns :
       /\ c # d
       /\ lastMsg.conn = c
       /\ lastMsg.kind = "ping"
       /\ lastMsg.sends[1].ok
       /\ replies[c] = <<"connection_established", "pong">>
       /\ replies[d] = <<"connection_established">>
       /\ active_connections = <<d, c>>

\* C29: a client message whose type is not recognized is answered with an
\* `error` event on the same connection, and the connection stays open and
\* registered.
C29_UnknownTypeAnswered ==
    [][(MessageHandled /\ lastMsg'.kind = "other_type") =>
          LET c == lastMsg'.conn
              sends == lastMsg'.sends
          IN  /\ Len(sends) = 1
              /\ sends[1].to = c
              /\ sends[1].type = "error"
              /\ sends[1].ok => replies'[c] = Append(replies[c], "error")
              /\ ws'[c] = "open"
              /\ active_connections' = active_connections]_vars

\* The reading of the accepted message number m.
ReadingOf(m) == (CHOOSE a \in Range(accepted) : a.m = m).reading

EventFields ==
    {"sensor_type", "sensor_id", "value", "unit", "anomaly", "anomaly_detail", "timestamp"}

\* C30: the event delivered for an accepted message has type "sensor_data",
\* and its data carries sensor_type, sensor_id, value, unit, anomaly,
\* anomaly_detail and timestamp, each equal to the field of the reading written
\* to the cache for that message (the timestamp as the text of the same time).
C30_EventCarriesReading ==
    \A cb \in Callbacks :
       \A i \in 1..Len(delivered[cb]) :
          LET e == delivered[cb][i]
              r == ReadingOf(e.m)
          IN  /\ e.type = "sensor_data"
              /\ e.data.sensor_type = r.sensor_type
              /\ e.data.sensor_id = r.sensor_id
              /\ e.data.value = r.value
              /\ e.data.unit = r.unit
              /\ e.data.anomaly = r.anomaly
              /\ ~FromIsoFormatRaises(e.data.timestamp)
              /\ FromIsoFormat(e.data.timestamp) = r.timestamp
              /\ EventFields \subseteq DOMAIN e.data

\* What C30 says without anomaly_detail: it holds.
C30_EventCarriesReadingFields ==
    \A cb \in Callbacks :
       \A i \in 1..Len(delivered[cb]) :
          LET e == delivered[cb][i]
              r == ReadingOf(e.m)
          IN  /\ e.type = "sensor_data"
              /\ e.data.sensor_type = r.sensor_type
              /\ e.data.sensor_id = r.sensor_id
              /\ e.data.value = r.value
              /\ e.data.unit = r.unit
              /\ e.data.anomaly = r.anomaly
              /\ ~FromIsoFormatRaises(e.data.timestamp)
              /\ FromIsoFormat(e.data.timestamp) = r.timestamp
              /\ EventFields \ {"anomaly_detail"} \subseteq DOMAIN e.data

\* C39: in the simulators detect_anomaly and create_payload never modify
\* last_value, so a call repeated with the same value gives the same verdict;
\* publish_reading is the only writer, and it sets last_value to the value it
\* generated after every publish attempt, also when the broker's answer is a
\* failure code.
C39_OnlyPublishWritesLastValue ==
    [][/\ call' # call => last_value' = last_value
       /\ (call' # call /\ call'.fn = "detect_anomaly") =>
             /\ call'.last = last_value
             /\ call'.verdict = (\/ OutOfRange(call'.value)
                                 \/ SuddenJump(call'.value, last_value'))
       /\ last_value' # last_value => published' # published
       /\ published' # published =>
             /\ rc' \in ReturnCodes
             /\ last_value' = <<published'[Len(published')].value>>]_vars

\* The broker refused the only publish, last_value is its value all the same,
\* and detect_anomaly, called afterwards, found a jump from it.
C39_Witness ==
    /\ Len(published) = 1
    /\ rc = "MQTT_ERR_NO_CONN"
    /\ last_value = <<published[1].value>>
    /\ call.fn = "detect_anomaly"
    /\ call.last = last_value
    /\ min_value <= call.value /\ call.value <= max_value
    /\ call.verdict

\* C31: no failure escapes the pipeline; in particular a failing client
\* message never ends websocket_endpoint with an unhandled exception: when a
\* client message has been handled, no exception has left the endpoint and the
\* endpoint still runs.
C31_NoFailureEscapes ==
    [][MessageHandled =>
          /\ lastMsg'.raised = "none"
          /\ ws'[lastMsg'.conn] = "open"]_vars

\* C36: whenever websocket_endpoint has ended, for whatever reason (the client
\* disconnected, a client message that is JSON but not an object, a failure
\* while serving get_latest), its websocket is not in active_connections.
C36_NoStaleRegistration ==
    \A c \in Conns : ws[c] = "closed" => c \notin Range(active_connections)

\* The paho thread returns from the notification to _on_message.
NotificationReturns == mpc = "notify" /\ mpc' = "idle"

\* C32: the MQTT callback never waits for the delivery to a subscriber.  The
\* loop of _notify_websocket_clients can always take its next turn and return,
\* whatever coroutines are pending; when it returns, the coroutines it scheduled
\* are left pending; and the thread can then take the next message.
C32_CallbackNeverWaits ==
    [][/\ mpc = "notify" => ENABLED NotifyNext(TRUE)
       /\ NotificationReturns => tasks' = tasks
       /\ (mpc' = "idle" /\ mseq' < MaxMsgs) =>
             (ENABLED OnMessage(<<"sensors", "temperature", "t1">>,
                                Object(<<22>>, Absent, Absent, Absent, Absent, Absent),
                                TRUE))']_vars

\* The thread handles the second message while the delivery of the first to a
\* subscriber is still pending.
C32_Witness ==
    /\ mseq = 2
    /\ mpc = "notify"
    /\ \E t \in tasks : t.m = 1
    /\ \E t \in tasks : t.m = 2

\* ---------------------------------------------------------------- C33
BrokerCallback == nCallbacks' # nCallbacks

\* C33: after every connect or disconnect callback `connected` is true exactly
\* when that callback was a successful connect; every successful connect, a
\* reconnect included, leaves the client subscribed to sensors/+/+ at QoS 1, so
\* the broker can deliver the next sensor message, and a delivered valid
\* message is stored in the history.
C33_ConnectedFollowsBroker ==
    [][/\ BrokerCallback => connected' = (lastCallback' = "connect_ok")
       /\ (BrokerCallback /\ lastCallback' = "connect_ok") =>
             /\ <<"sensors/+/+", 1>> \in subscribed'
             /\ mseq' < MaxMsgs =>
                   (ENABLED (\E data \in ReadPayloads :
                                Deliver(<<"sensors", "temperature", "t1">>, data)))'
       /\ (mseq' # mseq /\ Len(accepted') # Len(accepted)) =>
             db' = Append(db, accepted'[Len(accepted')].reading)]_vars

\* A message was stored after a reconnect.
C33_Witness ==
    /\ sessions = 2
    /\ connected
    /\ Len(accepted) >= 1
    /\ accepted[Len(accepted)].m > connectedAt
    /\ Len(db) >= 1
    /\ db[Len(db)] = accepted[Len(accepted)].reading

\* ---------------------------------------------------------------- C34
\* C34: a broker disconnect changes neither the latest-readings cache nor the
\* set of subscribers: get_latest_readings returns the same mapping before and
\* after it, and every registered subscriber stays registered.
C34_DisconnectKeepsCacheAndSubscribers ==
    [][(BrokerCallback /\ lastCallback' = "disconnect") =>
          /\ latest_readings' = latest_readings
          /\ GetLatestReadings(latest_readings').mapping =
                GetLatestReadings(latest_readings).mapping
          /\ websocket_callbacks' = websocket_callbacks]_vars

\* The broker disconnected a service with a cached reading and a subscriber.
C34_Witness ==
    /\ lastCallback = "disconnect"
    /\ ~connected
    /\ DOMAIN latest_readings # {}
    /\ "cbA" \in websocket_callbacks

\* ---------------------------------------------------------------- C35
\* C35: once remove_websocket_callback(cb) has returned, cb is not invoked for
\* any message, also not for one whose delivery was scheduled on the loop
\* before the removal: a coroutine callback(message) runs only while its
\* callback is registered.  (A callback with a scheduled coroutine that is not
\* in the set was removed after the coroutine was scheduled.)
C35_RemovedCallbackNotInvoked ==
    [][\A t \in tasks \ tasks' : t.cb \in websocket_callbacks]_vars

\* ---------------------------------------------------------------- C37
\* The message being handled is one the database failed to store.
StoreFailed ==
    /\ mpc # "idle"
    /\ Len(accepted) >= 1
    /\ accepted[Len(accepted)].m = mseq
    /\ ~accepted[Len(accepted)].dbOk

\* C37: a failure of the history write stays inside _store_sensor_reading:
\* the history is unchanged and the handler goes on, the cache gets the
\* reading (so the cache holds a reading the history lacks), and the event of
\* the reading is announced to the subscribers as for a stored message.
C37_StoreFailureContained ==
    [][/\ (Len(accepted') # Len(accepted) /\ ~accepted'[Len(accepted')].dbOk) =>
             /\ db' = db
             /\ mpc' = "stored"
             /\ mreading' = accepted'[Len(accepted')].reading
       /\ (StoreFailed /\ mpc = "stored") =>
             /\ ENABLED CacheWrite
             /\ mpc' # "idle"
             /\ mpc' = "cached" =>
                   /\ latest_readings'[mkey] = mreading
                   /\ Len(db') < Len(accepted')
       /\ (StoreFailed /\ mpc = "cached") =>
             /\ ENABLED NotifyEnter
             /\ (websocket_callbacks # {} /\ loop = "running") => mpc' # "idle"
       /\ StoreFailed =>
             \A t \in tasks' \ tasks : t.m = mseq /\ t.event = Event(mreading)]_vars

\* The database refused the only message; the reading is cached and the
\* subscriber got its event.
C37_Witness ==
    /\ Len(accepted) = 1
    /\ ~accepted[1].dbOk
    /\ db = <<>>
    /\ CacheKey(accepted[1].topic) \in DOMAIN latest_readings
    /\ latest_readings[CacheKey(accepted[1].topic)] = accepted[1].reading
    /\ Len(delivered["cbA"]) = 1
    /\ delivered["cbA"][1].m = accepted[1].m
    /\ delivered["cbA"][1].data = Event(accepted[1].reading).data

\* ---------------------------------------------------------------- C38
\* The handler has finished with message m.
Handled(m) == mseq > m \/ (mseq = m /\ mpc = "idle")

\* No coroutine is scheduled for message m and none has delivered it.
NoTrace(m) ==
    /\ \A t \in tasks : t.m # m
    /\ \A cb \in Callbacks : \A i \in 1..Len(delivered[cb]) : delivered[cb][i].m # m

\* The notification of the cached message finds no callback or no running loop.
NothingToNotify ==
    /\ mpc = "cached"
    /\ mpc' # "cached"
    /\ websocket_callbacks = {} \/ loop # "running"

\* C38: a message handled while no callback is registered or no loop is running
\* is stored and cached, and its event is dropped: the notification returns
\* without scheduling anything, and once the handler has finished with a
\* message that left no scheduled coroutine, none is ever scheduled or
\* delivered for it, whoever registers and whatever loop is set afterwards.
C38_EventWithoutListenerDropped ==
    [][/\ NothingToNotify =>
             /\ mpc' = "idle"
             /\ tasks' = tasks
             /\ delivered' = delivered
             /\ NoTrace(mseq)'
             /\ latest_readings'[mkey] = mreading
             /\ accepted[Len(accepted)].dbOk => db'[Len(db')] = mreading
       /\ \A m \in 1..MaxMsgs : (Handled(m) /\ NoTrace(m)) => NoTrace(m)']_vars

\* Message 1 was stored and cached with nobody to notify; a subscriber and a
\* loop came afterwards and nothing is scheduled or delivered.
C38_Witness ==
    /\ mseq = 1
    /\ mpc = "idle"
    /\ Len(accepted) = 1
    /\ db = <<accepted[1].reading>>
    /\ DOMAIN latest_readings # {}
    /\ nTried = {}
    /\ ~nAborted
    /\ "cbA" \in websocket_callbacks
    /\ loop = "running"
    /\ tasks = {}
    /\ delivered["cbA"] = <<>>

====
